---- MODULE Spec2Model ----
(***************************************************************************)
(* The example components of react-basics (src/components.js and its       *)
(* longer revision src/unnamed/part_000), run one example at a time under  *)
(* the component model the examples document: props passed by the parent,  *)
(* state changed by batched, shallow-merging setState requests, lifecycle  *)
(* hooks called around mount, update and unmount.                          *)
(***************************************************************************)
EXTENDS Integers, Sequences, FiniteSets, TLC

(* ------------------------------ bounds --------------------------------- *)
\* number of handler calls / clicks / parent updates in one behaviour
MaxOps == 4
\* number of setState requests that may wait in one batch
MaxPending == 3

(* ------------------------------ inputs --------------------------------- *)
Examples == {"Welcome", "Comment", "CounterState", "Example", "Counter", "LifecycleMethods"}

\* the user App passes (components.js:71-74) and the other users a parent may
\* pass; email is a field Welcome does not read
John == [first |-> "John", last |-> "Doe", email |-> "jd@x"]
Users == [first : {"John", "Jane"}, last : {"Doe", "Roe"}, email : {"jd@x", "jr@x"}]
Authors == [avatarUrl : {"a.png", "b.png"}, name : {"Ann", "Bob"}]
CommentPropsSet == [author : Authors, text : {"hi", "yo"}, date : {"mon", "tue"}]
\* props of the components that read none of them
OtherProps == {[label |-> "a"], [label |-> "b"]}
Posts == {"p1", "p2"}
Comments == {"c1", "c2"}
LifecycleProps == [userId : {1, 2}, name : {"n1", "n2"}]

(* ------------------------- element descriptors ------------------------- *)
NoElement == [type |-> "#none"]
Text(v) == [type |-> "#text", value |-> v]
Element(type, attributes, children) ==
  [type |-> type, attributes |-> attributes, children |-> children]
NoAttributes == <<>>

(* ------------------------- function components ------------------------- *)
WelcomeEmail(props) ==
  Element("h1", NoAttributes,
          <<Text("Hello, "), Text(props.user.first), Text(" "),
            Text(props.user.email), Text("!")>>)

Welcome(props) ==
  Element("h1", NoAttributes,
          <<Text("Hello, "), Text(props.user.first), Text(" "),
            Text(props.user.last), Text("!")>>)

\* the Comment of components.js:90-110, before the extraction
CommentMonolithic(props) ==
  Element("div", [className |-> "comment"],
    << Element("div", [className |-> "user-info"],
         << Element("img", [className |-> "avatar",
                            src |-> props.author.avatarUrl,
                            alt |-> props.author.name], <<>>),
            Element("div", [className |-> "user-info-name"],
                    <<Text(props.author.name)>>) >>),
       Element("div", [className |-> "comment-text"], <<Text(props.text)>>),
       Element("div", [className |-> "comment-date"], <<Text(props.date)>>) >>)

AvatarAltUrl(props) ==
  Element("img", [className |-> "avatar",
                  src |-> props.user.avatarUrl,
                  alt |-> props.user.avatarUrl], <<>>)

Avatar(props) ==
  Element("img", [className |-> "avatar",
                  src |-> props.user.avatarUrl,
                  alt |-> props.user.name], <<>>)

UserInfo(props) ==
  Element("div", [className |-> "user-info"],
    << Element("Avatar", [user |-> props.user], <<>>),
       Element("div", [className |-> "user-info-name"],
               <<Text(props.user.name)>>) >>)

\* the Comment of components.js:137-149, built from UserInfo and Avatar
Comment(props) ==
  Element("div", [className |-> "comment"],
    << Element("UserInfo", [user |-> props.author], <<>>),
       Element("div", [className |-> "comment-text"], <<Text(props.text)>>),
       Element("div", [className |-> "comment-date"], <<Text(props.date)>>) >>)

\* what the renderer does with a descriptor: an element whose type is a
\* component is replaced by what the component returns for its attributes,
\* down to primitive tags
RECURSIVE Expand(_)
Expand(e) ==
  IF e.type = "#text" THEN e
  ELSE IF e.type = "UserInfo" THEN Expand(UserInfo(e.attributes))
  ELSE IF e.type = "Avatar" THEN Expand(Avatar(e.attributes))
  ELSE [e EXCEPT !.children = [i \in DOMAIN e.children |-> Expand(e.children[i])]]

(* ------------------- the component model's setState -------------------- *)
\* "React shallow merges your object into the current state"
Merge(s, payload) ==
  [k \in DOMAIN s \cup DOMAIN payload |->
     IF k \in DOMAIN payload THEN payload[k] ELSE s[k]]

\* this.setState(payload, callback): the request waits in the batch
setState(q, payload, callback) ==
  Append(q, [payload |-> payload, callback |-> callback])

RECURSIVE MergeAllReversed(_, _)
MergeAllReversed(s, q) ==
  IF q = <<>> THEN s
  ELSE Merge(MergeAllReversed(s, Tail(q)), Head(q).payload)

\* the batch applied as one update: the payloads merged in request order
RECURSIVE MergeAll(_, _)
MergeAll(s, q) ==
  IF q = <<>> THEN s
  ELSE MergeAll(Merge(s, Head(q).payload), Tail(q))

\* what the completion callbacks of a batch read in this.state.counter
CallbacksSeeBefore(q, before, after) ==
  [i \in 1..Len(SelectSeq(q, LAMBDA r : r.callback)) |-> before.counter]

CallbacksSee(q, before, after) ==
  [i \in 1..Len(SelectSeq(q, LAMBDA r : r.callback)) |-> after.counter]

(* --------------------------- class components --------------------------- *)
\* a value of this: the instance, or undefined
Undefined == [defined |-> FALSE]
Instance(s, q) == [defined |-> TRUE, state |-> s, queue |-> q]
TypeError == [threw |-> TRUE]
Returned(q) == [threw |-> FALSE, queue |-> q]

\* Counter of components.js:169-182
CounterStateConstructor(p) == [props |-> p, state |-> [counter |-> 0]]
CounterStateRender(this) ==
  Element("h1", NoAttributes, <<Text(this.state.counter)>>)

\* Example
ExampleConstructor(p) ==
  [props |-> p, state |-> [posts |-> <<>>, comments |-> <<>>]]

addPost(this, post) ==
  IF ~this.defined THEN TypeError
  ELSE Returned(setState(this.queue,
                         [posts |-> Append(this.state.posts, post)], FALSE))

addComment(this, comment) ==
  IF ~this.defined THEN TypeError
  ELSE Returned(setState(this.queue,
                         [comment |-> Append(this.state.comments, comment)], FALSE))

\* Counter of part_000:247-280
CounterConstructor(p) == [props |-> p, state |-> [counter |-> 0]]

add(this) ==
  IF ~this.defined THEN TypeError
  ELSE Returned(setState(this.queue,
                         [counter |-> this.state.counter + 1], FALSE))

subtract(this) ==
  IF ~this.defined THEN TypeError
  ELSE Returned(setState(this.queue,
                         [counter |-> this.state.counter - 1], FALSE))

\* onClick={this.add} passes the method without its instance
CounterRender(this) ==
  Element("div", NoAttributes,
    << Element("p", NoAttributes, <<Text(this.state.counter)>>),
       Element("button", [onClick |-> "add"], <<Text("Add")>>),
       Element("button", [onClick |-> "subtract"], <<Text("Subtract")>>) >>)

\* an event handler given as a function value is called with this undefined
HandlerThis(handler) == Undefined

\* LifecycleMethods
LifecycleMethodsConstructorWritesProps(p) ==
  [props |-> [p EXCEPT !.name = "copied"], state |-> [name |-> p.name]]

LifecycleMethodsConstructor(p) ==
  [props |-> p, state |-> [name |-> p.name]]

\* the number of fetchData calls one componentDidUpdate makes
componentDidUpdate(thisProps, prevProps, prevState) ==
  IF thisProps.userId # prevProps.userId THEN 1 ELSE 0

\* the body is empty: the call returns undefined
shouldComponentUpdate(nextProps, nextState) == "undefined"
LifecycleMethodsRender == "undefined"
ToBoolean(v) == v = "true"

(* -------------------------------- state -------------------------------- *)
VARIABLES
  example,      \* the example that is running
  props,        \* this.props / the props argument, as the component holds it
  passed,       \* the value the parent put into that props object
  state,        \* this.state of the class component
  queue,        \* setState requests not yet applied
  out,          \* the last descriptor the component returned
  out2,         \* Comment: the last expanded descriptor of the refactored Comment
  ops,          \* handler calls, clicks and parent updates so far
  pending,      \* for each request in queue, the call that made it
  batch,        \* the requests of the last applied batch, with their calls
  prevState,    \* the state before the last applied batch
  cbRequested,  \* setState requests made with a callback
  cbSeen,       \* this.state.counter as each callback run read it
  addClicks,    \* clicks on Add
  subClicks,    \* clicks on Subtract
  thrown,       \* handler calls that ended in a TypeError
  phase,        \* LifecycleMethods: "none", "mounted", "failed", "unmounted"
  hookLog,      \* LifecycleMethods: the methods called, in order
  fetchCalls,   \* LifecycleMethods: calls of this.fetchData
  userIdChanges,\* LifecycleMethods: updates that changed props.userId
  changes       \* LifecycleMethods: updates that changed props or state

vars == <<example, props, passed, state, queue, out, out2, ops, pending, batch,
          prevState, cbRequested, cbSeen, addClicks, subClicks, thrown, phase,
          hookLog, fetchCalls, userIdChanges, changes>>

renderVars == <<out, out2>>
batchVars == <<queue, pending, batch, prevState, cbRequested, cbSeen>>
counterVars == <<addClicks, subClicks, thrown>>
lifecycleVars == <<phase, hookLog, fetchCalls, userIdChanges, changes>>

NoState == [none |-> TRUE]
FirstOtherProps == [label |-> "a"]
FirstLifecycleProps == [userId |-> 1, name |-> "n1"]
FirstCommentProps ==
  [author |-> [avatarUrl |-> "a.png", name |-> "Ann"], text |-> "hi", date |-> "mon"]

Constructed(ex) ==
  CASE ex = "CounterState" -> CounterStateConstructor(FirstOtherProps)
    [] ex = "Counter" -> CounterConstructor(FirstOtherProps)
    [] ex = "Example" -> ExampleConstructor(FirstOtherProps)
    [] ex = "Welcome" -> [props |-> [user |-> John], state |-> NoState]
    [] ex = "Comment" -> [props |-> FirstCommentProps, state |-> NoState]
    [] ex = "LifecycleMethods" -> [props |-> FirstLifecycleProps, state |-> NoState]

PassedAtFirst(ex) ==
  CASE ex \in {"CounterState", "Counter", "Example"} -> FirstOtherProps
    [] ex = "Welcome" -> [user |-> John]
    [] ex = "Comment" -> FirstCommentProps
    [] ex = "LifecycleMethods" -> FirstLifecycleProps

Rendered(ex, s) ==
  CASE ex = "CounterState" -> CounterStateRender(Instance(s, <<>>))
    [] ex = "Counter" -> CounterRender(Instance(s, <<>>))
    [] OTHER -> NoElement

Init ==
  /\ example \in Examples
  /\ props = Constructed(example).props
  /\ passed = PassedAtFirst(example)
  /\ state = Constructed(example).state
  /\ queue = <<>>
  /\ out = Rendered(example, state)
  /\ out2 = NoElement
  /\ ops = 0
  /\ pending = <<>>
  /\ batch = <<>>
  /\ prevState = state
  /\ cbRequested = 0
  /\ cbSeen = <<>>
  /\ addClicks = 0
  /\ subClicks = 0
  /\ thrown = 0
  /\ phase = "none"
  /\ hookLog = <<>>
  /\ fetchCalls = 0
  /\ userIdChanges = 0
  /\ changes = 0

(* --------------------------- function components ------------------------ *)
\* App renders <Welcome user={user} />
AppRendersWelcome ==
  /\ example = "Welcome"
  /\ \E user \in Users :
       /\ passed' = [user |-> user]
       /\ props' = [user |-> user]
       /\ out' = Welcome([user |-> user])
  /\ UNCHANGED <<example, state, out2, ops>>
  /\ UNCHANGED <<batchVars, counterVars, lifecycleVars>>

\* a parent renders the monolithic Comment and the refactored one
ParentRendersComment ==
  /\ example = "Comment"
  /\ \E p \in CommentPropsSet :
       /\ passed' = p
       /\ props' = p
       /\ out' = CommentMonolithic(p)
       /\ out2' = Expand(Comment(p))
  /\ UNCHANGED <<example, state, ops>>
  /\ UNCHANGED <<batchVars, counterVars, lifecycleVars>>

(* ------------------------------ setState -------------------------------- *)
\* a method call on the instance that ends in a setState request
Requests(result, call) ==
  /\ ~result.threw
  /\ queue' = result.queue
  /\ pending' = Append(pending, call)
  /\ ops' = ops + 1
  /\ UNCHANGED <<example, props, passed, state, out, out2, batch, prevState, cbSeen>>
  /\ UNCHANGED <<counterVars, lifecycleVars>>

CanRequest == ops < MaxOps /\ Len(queue) < MaxPending

\* components.js:194  this.setState({ counter: 1 })
SetCounter ==
  /\ example = "CounterState"
  /\ CanRequest
  /\ Requests(Returned(setState(queue, [counter |-> 1], FALSE)),
              [op |-> "setCounter", arg |-> 1])
  /\ UNCHANGED cbRequested

\* components.js:202-206  this.setState({ counter: 1 }, () => { ... })
SetCounterThen ==
  /\ example = "CounterState"
  /\ CanRequest
  /\ Requests(Returned(setState(queue, [counter |-> 1], TRUE)),
              [op |-> "setCounterThen", arg |-> 1])
  /\ cbRequested' = cbRequested + 1

CallAddPost ==
  /\ example = "Example"
  /\ CanRequest
  /\ \E post \in Posts :
       Requests(addPost(Instance(state, queue), post),
                [op |-> "addPost", arg |-> post])
  /\ UNCHANGED cbRequested

CallAddComment ==
  /\ example = "Example"
  /\ CanRequest
  /\ \E comment \in Comments :
       Requests(addComment(Instance(state, queue), comment),
                [op |-> "addComment", arg |-> comment])
  /\ UNCHANGED cbRequested

\* the batch is applied: one merged update, the re-render, then the callbacks
Flush ==
  /\ queue # <<>>
  /\ prevState' = state
  /\ state' = MergeAll(state, queue)
  /\ batch' = [i \in DOMAIN queue |-> [payload |-> queue[i].payload,
                                       callback |-> queue[i].callback,
                                       call |-> pending[i]]]
  /\ queue' = <<>>
  /\ pending' = <<>>
  /\ out' = Rendered(example, state')
  /\ cbSeen' = cbSeen \o CallbacksSee(queue, state, state')
  /\ UNCHANGED <<example, props, passed, out2, ops, cbRequested>>
  /\ UNCHANGED <<counterVars, lifecycleVars>>

\* the parent renders again and passes a props object to the class component
ParentRerenders ==
  /\ example \in {"CounterState", "Counter"}
  /\ \E p \in OtherProps :
       /\ passed' = p
       /\ props' = p
  /\ out' = Rendered(example, state)
  /\ UNCHANGED <<example, state, out2, ops>>
  /\ UNCHANGED <<batchVars, counterVars, lifecycleVars>>

(* ------------------------------- Counter -------------------------------- *)
\* a click calls the function the button's onClick holds
Buttons == {2, 3}

Click ==
  /\ example = "Counter"
  /\ ops < MaxOps
  /\ Len(queue) < MaxPending
  /\ \E button \in Buttons :
     LET handler == out.children[button].attributes.onClick
         this == HandlerThis(handler)
         result == IF handler = "add" THEN add(this) ELSE subtract(this)
     IN /\ IF result.threw
             THEN /\ thrown' = thrown + 1
                  /\ UNCHANGED <<queue, pending>>
             ELSE /\ queue' = result.queue
                  /\ pending' = Append(pending, [op |-> handler, arg |-> 1])
                  /\ UNCHANGED thrown
        /\ addClicks' = addClicks + (IF handler = "add" THEN 1 ELSE 0)
        /\ subClicks' = subClicks + (IF handler = "subtract" THEN 1 ELSE 0)
  /\ ops' = ops + 1
  /\ UNCHANGED <<example, props, passed, state, out, out2, batch, prevState,
                 cbRequested, cbSeen>>
  /\ UNCHANGED lifecycleVars

(* --------------------------- LifecycleMethods --------------------------- *)
\* the parent puts <LifecycleMethods .../> into the tree: constructor, render,
\* then componentDidMount; a renderer that rejects a render() result of
\* undefined stops before the mount
Mount ==
  /\ example = "LifecycleMethods"
  /\ phase = "none"
  /\ LET made == LifecycleMethodsConstructor(props)
     IN /\ props' = made.props
        /\ state' = made.state
        /\ prevState' = made.state
  /\ \E accepted \in BOOLEAN :
       IF accepted \/ LifecycleMethodsRender # "undefined"
         THEN /\ phase' = "mounted"
              /\ hookLog' = <<"constructor", "render", "componentDidMount">>
         ELSE /\ phase' = "failed"
              /\ hookLog' = <<"constructor", "render">>
  /\ UNCHANGED <<example, passed, queue, out, out2, ops, pending, batch,
                 cbRequested, cbSeen, fetchCalls, userIdChanges, changes>>
  /\ UNCHANGED counterVars

\* the parent passes changed props to the mounted instance
ParentUpdates ==
  /\ example = "LifecycleMethods"
  /\ phase = "mounted"
  /\ ops < MaxOps
  /\ \E nextProps \in LifecycleProps \ {props} :
       LET should == ToBoolean(shouldComponentUpdate(nextProps, state))
       IN /\ passed' = nextProps
          /\ props' = nextProps
          /\ hookLog' = hookLog \o <<"shouldComponentUpdate">> \o
                        (IF should THEN <<"render", "componentDidUpdate">> ELSE <<>>)
          /\ fetchCalls' = fetchCalls +
                           (IF should THEN componentDidUpdate(nextProps, props, state) ELSE 0)
          /\ userIdChanges' = userIdChanges +
                              (IF nextProps.userId # props.userId THEN 1 ELSE 0)
  /\ changes' = changes + 1
  /\ ops' = ops + 1
  /\ UNCHANGED <<example, state, out, out2, phase>>
  /\ UNCHANGED <<batchVars, counterVars>>

\* the parent removes the instance from the tree
Unmount ==
  /\ example = "LifecycleMethods"
  /\ phase = "mounted"
  /\ phase' = "unmounted"
  /\ hookLog' = Append(hookLog, "componentWillUnmount")
  /\ UNCHANGED <<example, props, passed, state, out, out2, ops,
                 fetchCalls, userIdChanges, changes>>
  /\ UNCHANGED <<batchVars, counterVars>>

Next ==
  \/ AppRendersWelcome
  \/ ParentRendersComment
  \/ SetCounter
  \/ SetCounterThen
  \/ CallAddPost
  \/ CallAddComment
  \/ Flush
  \/ ParentRerenders
  \/ Click
  \/ Mount
  \/ ParentUpdates
  \/ Unmount

Spec == Init /\ [][Next]_vars

(* ------------------------------ properties ------------------------------ *)
Max(S) == CHOOSE m \in S : \A n \in S : n <= m
Writers(k) == {i \in DOMAIN batch : k \in DOMAIN batch[i].payload}
Written == UNION {DOMAIN batch[i].payload : i \in DOMAIN batch}
Count(hook) == Cardinality({i \in DOMAIN hookLog : hookLog[i] = hook})
PendingCallbacks == Cardinality({i \in DOMAIN queue : queue[i].callback})
BatchCalls(op) == {i \in DOMAIN batch : batch[i].call.op = op}

\* C1: after a batch is applied every key of the previous state is still
\* there, a key no payload names keeps its value and a key some payload names
\* holds the payload's value; and after addPost(post) is applied
\* state.comments is unchanged and state.posts is the previous posts with post
\* appended last.
C1_MergeKeepsKeysAndAppendsPost ==
  (example = "Example" /\ batch # <<>>) =>
    /\ \A k \in DOMAIN prevState :
         /\ k \in DOMAIN state
         /\ k \notin Written => state[k] = prevState[k]
    /\ \A k \in Written : state[k] = batch[Max(Writers(k))].payload[k]
    /\ \A i \in BatchCalls("addPost") :
         /\ state.comments = prevState.comments
         /\ state.posts = Append(prevState.posts, batch[i].call.arg)

\* C2: after addComment(comment) is applied state.comments is the previous
\* comments with comment appended last, state.posts is unchanged (no addPost
\* being in the batch) and the state has exactly the keys posts and comments.
C2_AddCommentAppends ==
  (example = "Example" /\ batch # <<>>) =>
    \A i \in BatchCalls("addComment") :
      /\ state.comments = Append(prevState.comments, batch[i].call.arg)
      /\ BatchCalls("addPost") = {} => state.posts = prevState.posts
      /\ DOMAIN state = {"posts", "comments"}

\* C3: every run of the callback of setState({counter: 1}, callback) reads
\* state.counter = 1, and the callback has run exactly once for each such
\* request that was applied and not at all for one still waiting, however the
\* requests were batched.
C3_CallbackAfterApplied ==
  example = "CounterState" =>
    /\ \A i \in DOMAIN cbSeen : cbSeen[i] = 1
    /\ Len(cbSeen) + PendingCallbacks = cbRequested

C3_Witness ==
  /\ example = "CounterState"
  /\ Len(cbSeen) >= 2
  /\ Len(batch) >= 2
  /\ PendingCallbacks >= 1

\* C4: a setState request leaves the state as it was until the batch is
\* applied; applying takes the whole batch, and afterwards each key holds the
\* value of the last request of the batch that names it, or its previous value
\* when none does, so that no request is dropped or applied twice.
C4_BatchedMerge ==
  /\ [](batch # <<>> =>
          /\ DOMAIN state = DOMAIN prevState \cup Written
          /\ \A k \in DOMAIN state :
               state[k] = IF Writers(k) = {} THEN prevState[k]
                          ELSE batch[Max(Writers(k))].payload[k])
  /\ [][/\ Len(queue') > Len(queue) =>
             /\ state' = state
             /\ SubSeq(queue', 1, Len(queue)) = queue
        /\ Len(queue') < Len(queue) =>
             /\ queue' = <<>>
             /\ Len(batch') = Len(queue)
             /\ \A i \in DOMAIN queue : batch'[i].payload = queue[i].payload]_vars

C4_Witness ==
  /\ example = "Example"
  /\ Len(batch) >= 2
  /\ batch[1].call.op = "addPost"
  /\ batch[2].call.op = "addPost"
  /\ batch[1].call.arg # batch[2].call.arg
  /\ "comment" \in Written

\* C5: the props object the parent passed holds what the parent put into it,
\* whatever render, constructor, handler or lifecycle hook has run.
C5_PropsReadOnly == props = passed

C5_Witness ==
  /\ example = "LifecycleMethods"
  /\ phase = "unmounted"
  /\ changes >= 2

\* C6: two renders of a component that agree on the inputs the descriptor
\* is built from (Welcome: props.user.first and props.user.last; Counter:
\* state.counter; Comment: props) return equal descriptors, and a render
\* changes neither props nor state.
RenderInputs ==
  CASE example = "Welcome" -> <<props.user.first, props.user.last>>
    [] example \in {"CounterState", "Counter"} -> <<state.counter>>
    [] OTHER -> <<props>>

C6_RenderPure ==
  [][/\ (out # NoElement /\ out' # NoElement /\ RenderInputs' = RenderInputs)
          => out' = out
     /\ props' = passed'
     /\ (AppRendersWelcome \/ ParentRendersComment \/ ParentRerenders)
          => state' = state]_vars

C6_Witness ==
  /\ example = "Welcome"
  /\ out = Welcome([user |-> John])
  /\ props.user.email # John.email

\* C9: once every requested update is applied, state.counter and the number
\* in the rendered <p> equal the Add clicks minus the Subtract clicks.
C9_CounterIsClickBalance ==
  (example = "Counter" /\ queue = <<>>) =>
    /\ state.counter = addClicks - subClicks
    /\ out.children[1].children[1].value = addClicks - subClicks

\* C7: constructor comes first, componentDidMount runs exactly once on mount,
\* componentDidUpdate runs after every change of props or state while
\* mounted, componentWillUnmount runs exactly once, last, on removal.
C7_HookOrder ==
  example = "LifecycleMethods" =>
    /\ hookLog # <<>> => hookLog[1] = "constructor"
    /\ phase \in {"mounted", "unmounted"} => Count("componentDidMount") = 1
    /\ Count("componentDidUpdate") = changes
    /\ phase = "unmounted" =>
         /\ Count("componentWillUnmount") = 1
         /\ hookLog[Len(hookLog)] = "componentWillUnmount"
    /\ phase # "unmounted" => Count("componentWillUnmount") = 0

\* C8: for every props value the refactored Comment, fully expanded, is the
\* primitive element tree of the monolithic Comment.
C8_RefactoringEquivalent ==
  /\ \A p \in CommentPropsSet : Expand(Comment(p)) = CommentMonolithic(p)
  /\ (example = "Comment" /\ out # NoElement) => out2 = out

C8_Witness ==
  /\ example = "Comment"
  /\ out2 = CommentMonolithic(props)
  /\ out2.children[1].children[1].attributes.alt = "Bob"

\* C10: the number of fetchData calls equals the number of updates in which
\* props.userId changed.
C10_FetchPerUserIdChange ==
  example = "LifecycleMethods" => fetchCalls = userIdChanges

====
